---- MODULE Spec2Model ----
(***************************************************************************)
(* Model of the Product contract (src/src/lib.rs): a keyed item store      *)
(* (records), a single owner and an AccessControl role map, all persisted  *)
(* in the host's key-value storage.  One action per contract method; a     *)
(* panicking call aborts and the host discards every write it made.        *)
(*                                                                         *)
(* Both LookupMaps of the contract are created with the storage prefix     *)
(* b"a" (lib.rs:77 and lib.rs:79), so the raw storage key of records[k]    *)
(* and of access.roles[k] is the same byte string.  The model keeps ONE    *)
(* storage map keyed by <<prefix, key>> and tags every stored value with   *)
(* the type that wrote it.  near_sdk's LookupMap deserializes the value it *)
(* reads (get) or replaces (insert, remove) and panics when the bytes do   *)
(* not parse as its value type; reading a value written under the other    *)
(* type therefore either panics or yields some value of the reader's type, *)
(* depending on the bytes.  The model takes both outcomes.                 *)
(***************************************************************************)
EXTENDS Integers, Sequences, FiniteSets, TLC

\* ---------------------------------------------------------------- bounds
NumAccounts == 2
NumPlainKeys == 1
NumItems == 2

AccountNames == <<"paul", "eve", "mallory", "trent">>
PlainKeyNames == <<"0x1", "0x11", "0x2", "0x3">>
ItemPool == << [name |-> "PS5", price |-> 500, stock |-> 12],
               [name |-> "PS5", price |-> 1200, stock |-> 7],
               [name |-> "PS4 x", price |-> 800, stock |-> 100],
               [name |-> "", price |-> 0, stock |-> 0] >>

Accounts == {AccountNames[i] : i \in 1..NumAccounts}
PlainKeys == {PlainKeyNames[i] : i \in 1..NumPlainKeys}
Items == {ItemPool[i] : i \in 1..NumItems}

\* ------------------------------------------------------ program constants
ROLE_SET_PRODUCT == "ROLE_SET_PRODUCT"
ROLE_DELETE_PRODUCT == "ROLE_DELETE_PRODUCT"
Roles == {ROLE_SET_PRODUCT, ROLE_DELETE_PRODUCT}

\* Storage prefixes handed to LookupMap::new for the two maps of the struct.
RecordsPrefix == "a"
RolesPrefix == "a"

\* address is any String: the role names are key strings like any other.
KeyStrings == PlainKeys \cup Roles

\* Raw storage key of a LookupMap entry: prefix ++ borsh(key).
RawKey(prefix, key) == <<prefix, key>>
RawKeys == {RawKey(RecordsPrefix, k) : k \in KeyStrings}
             \cup {RawKey(RolesPrefix, r) : r \in Roles}

\* ------------------------------------------------------------ stored values
NoAccount == ""
NoItem == [name |-> "-", price |-> 0, stock |-> 0]
Absent == [t |-> "none", item |-> NoItem, holders |-> {}]
ItemVal(i) == [t |-> "item", item |-> i, holders |-> {}]
RolesVal(s) == [t |-> "roles", item |-> NoItem, holders |-> s]
DeserErr == [t |-> "err", item |-> NoItem, holders |-> {}]

VARIABLES
    initialized,  \* env::state_exists(): the contract struct has been written
    storage,      \* host storage behind both LookupMaps: raw key -> tagged value
    owner,        \* Product.owner
    last          \* the call just executed: the context it read (signer,
                  \* predecessor; NoAccount where the method reads neither),
                  \* its arguments and its outcome

vars == <<initialized, storage, owner, last>>

\* LookupMap<String, Item>::deserialize_value on a stored value: the outcomes.
DeserializeItem(v) ==
    IF v.t = "item" THEN {v}
    ELSE {DeserErr} \cup {ItemVal(i) : i \in Items}

\* LookupMap<String, holders>::deserialize_value on a stored value: the outcomes.
DeserializeRoles(v) ==
    IF v.t = "roles" THEN {v}
    ELSE {DeserErr} \cup {RolesVal(s) : s \in SUBSET Accounts}

\* self.records.get(&address) / the old value read by insert and remove.
RecordsRead(st, key) ==
    IF st[RawKey(RecordsPrefix, key)].t = "none" THEN {Absent}
    ELSE DeserializeItem(st[RawKey(RecordsPrefix, key)])

\* self.access.roles.get(&role)
RolesRead(st, role) ==
    IF st[RawKey(RolesPrefix, role)].t = "none" THEN {Absent}
    ELSE DeserializeRoles(st[RawKey(RolesPrefix, role)])

\* AccessControl::has_role on the holder set read for the role.
HasRole(r, account) == account \in r.holders

\* Variant of setup_role that revokes a role the account already holds.
SetupRoleToggle(st, role, r, account) ==
    [st EXCEPT ![RawKey(RolesPrefix, role)] =
        RolesVal(IF account \in r.holders THEN r.holders \ {account}
                 ELSE r.holders \cup {account})]

\* AccessControl::setup_role: add the account to the holders read, persist.
SetupRole(st, role, r, account) ==
    [st EXCEPT ![RawKey(RolesPrefix, role)] = RolesVal(r.holders \cup {account})]

\* Variant of the role assert that lets every signer through.
RoleCheckAlways(r, signer) == TRUE

\* assert_eq!(self.access.has_role(&ROLE, &env::signer_account_id()), true, "401")
RoleCheck(r, signer) == HasRole(r, signer) = TRUE

\* Variant of new() without the state_exists assert.
StateCheckSkipped(exists) == TRUE

\* assert!(!env::state_exists(), "The contract is already initialized")
StateCheck(exists) == ~exists

\* Variant in which Default builds an empty contract instead of panicking.
DefaultConstructs(exists) == FALSE

\* A method other than new() loads the contract with
\* env::state_read().unwrap_or_default(); Default for Product panics.
DefaultPanics(exists) == ~exists

\* Variant of assert_owner that accepts every predecessor.
AssertOwnerSkipped(pred, own) == TRUE

\* Ownable::assert_owner: the immediate predecessor must equal the owner.
AssertOwner(pred, own) == pred = own

\* Variant of new() that forgets the delete role.
BootstrapSetOnly(st, s, r1, r2) == SetupRole(st, ROLE_SET_PRODUCT, r1, s)

\* The two grants of new(): this.add_role_set_product(signer), then
\* this.add_role_delete_product(signer), on the holder sets r1 and r2 read.
Bootstrap(st, s, r1, r2) ==
    SetupRole(SetupRole(st, ROLE_SET_PRODUCT, r1, s), ROLE_DELETE_PRODUCT, r2, s)

\* Variant of insert that keeps the price of the Item it replaces.
RecordsInsertMerge(st, key, item) ==
    [st EXCEPT ![RawKey(RecordsPrefix, key)] =
        IF @.t = "item" THEN ItemVal([name |-> item.name, price |-> @.item.price,
                                      stock |-> item.stock])
        ELSE ItemVal(item)]

\* self.records.insert(&address, &item)
RecordsInsert(st, key, item) ==
    [st EXCEPT ![RawKey(RecordsPrefix, key)] = ItemVal(item)]

\* self.records.remove(&address)
RecordsRemove(st, key) ==
    [st EXCEPT ![RawKey(RecordsPrefix, key)] = Absent]

\* ------------------------------------------------------------ call records
SetLog(item) == [line |-> "set_product", key |-> "", item |-> item]
DeleteLog(key) == [line |-> "delete_products", key |-> key, item |-> NoItem]

\* A call: the context it read, its arguments, how it ended (result), what it
\* returned (ret), the value its write replaced (old: LookupMap::insert and
\* remove hand back the previous value) and the log lines it emitted.
Call(op, s, p, key, item, account, result, ret, old, logs) ==
    [op |-> op, signer |-> s, pred |-> p, key |-> key, item |-> item,
     account |-> account, result |-> result, ret |-> ret, old |-> old,
     logs |-> logs]

NoCall ==
    Call("none", NoAccount, NoAccount, "", NoItem, NoAccount, "ok", Absent, Absent, <<>>)

\* A panic: the host drops every write of the call; only the outcome remains.
Abort(c) ==
    /\ last' = c
    /\ UNCHANGED <<initialized, storage, owner>>

Init ==
    /\ initialized = FALSE
    /\ storage = [rk \in RawKeys |-> Absent]
    /\ owner = NoAccount
    /\ last = NoCall

\* #[init] pub fn new() -> Self
New ==
    \E s \in Accounts, p \in Accounts :
      LET c(res) == Call("new", s, p, "", NoItem, NoAccount, res, Absent, Absent, <<>>)
      IN IF ~StateCheck(initialized) THEN Abort(c("already_initialized"))
         ELSE IF ~AssertOwner(p, s) THEN Abort(c("not_owner"))
         ELSE \E r1 \in RolesRead(storage, ROLE_SET_PRODUCT) :
                LET st1 == SetupRole(storage, ROLE_SET_PRODUCT, r1, s)
                IN \E r2 \in RolesRead(st1, ROLE_DELETE_PRODUCT) :
                     IF r1.t = "err" \/ r2.t = "err" THEN Abort(c("deserialize"))
                     ELSE /\ storage' = Bootstrap(storage, s, r1, r2)
                          /\ owner' = s
                          /\ initialized' = TRUE
                          /\ last' = c("ok")

\* pub fn add_role_set_product / add_role_delete_product (&mut self, account)
AddRole(op, role) ==
    \E p \in Accounts, account \in Accounts :
      \E r \in RolesRead(storage, role) :
        LET c(res, old) ==
              Call(op, NoAccount, p, "", NoItem, account, res, Absent, old, <<>>)
        IN IF DefaultPanics(initialized) THEN Abort(c("uninitialized", Absent))
           ELSE IF ~AssertOwner(p, owner) THEN Abort(c("not_owner", Absent))
           ELSE IF r.t = "err" THEN Abort(c("deserialize", Absent))
           ELSE /\ storage' = SetupRole(storage, role, r, account)
                /\ last' = c("ok", r)
                /\ UNCHANGED <<initialized, owner>>

AddRoleSetProduct == AddRole("add_role_set_product", ROLE_SET_PRODUCT)

AddRoleDeleteProduct == AddRole("add_role_delete_product", ROLE_DELETE_PRODUCT)

\* Ownable::set_owner(&mut self, owner).  The impl block (lib.rs:39-48) has no
\* #[near_bindgen], so this is a method of the struct, not an exported entry
\* point; it reads the predecessor through assert_owner like the grants.
SetOwner ==
    \E p \in Accounts, account \in Accounts :
      LET c(res) == Call("set_owner", NoAccount, p, "", NoItem, account, res, Absent, Absent, <<>>)
      IN IF DefaultPanics(initialized) THEN Abort(c("uninitialized"))
         ELSE IF ~AssertOwner(p, owner) THEN Abort(c("not_owner"))
         ELSE /\ owner' = account
              /\ last' = c("ok")
              /\ UNCHANGED <<initialized, storage>>

\* pub fn set_products(&mut self, address, name, price, stock)
SetProducts ==
    \E s \in Accounts, p \in Accounts, k \in KeyStrings, it \in Items :
      \E r \in RolesRead(storage, ROLE_SET_PRODUCT), old \in RecordsRead(storage, k) :
        LET c(res, o, logs) ==
              Call("set_products", s, p, k, it, NoAccount, res, Absent, o, logs)
        IN IF DefaultPanics(initialized) THEN Abort(c("uninitialized", Absent, <<>>))
           ELSE IF r.t = "err" THEN Abort(c("deserialize", Absent, <<>>))
           ELSE IF ~RoleCheck(r, s) THEN Abort(c("401", Absent, <<>>))
           ELSE IF old.t = "err" THEN Abort(c("deserialize", Absent, <<SetLog(it)>>))
           ELSE /\ storage' = RecordsInsert(storage, k, it)
                /\ last' = c("ok", old, <<SetLog(it)>>)
                /\ UNCHANGED <<initialized, owner>>

\* pub fn get_products(&self, address) -> Option<Item>
GetProducts ==
    \E k \in KeyStrings :
      \E v \in RecordsRead(storage, k) :
        LET c(res, ret) ==
              Call("get_products", NoAccount, NoAccount, k, NoItem, NoAccount, res, ret, Absent, <<>>)
        IN IF DefaultPanics(initialized) THEN Abort(c("uninitialized", Absent))
           ELSE IF v.t = "err" THEN Abort(c("deserialize", Absent))
           ELSE Abort(c("ok", v))

\* pub fn delete_products(&mut self, address)
DeleteProducts ==
    \E s \in Accounts, p \in Accounts, k \in KeyStrings :
      \E r \in RolesRead(storage, ROLE_DELETE_PRODUCT), old \in RecordsRead(storage, k) :
        LET c(res, o, logs) ==
              Call("delete_products", s, p, k, NoItem, NoAccount, res, Absent, o, logs)
        IN IF DefaultPanics(initialized) THEN Abort(c("uninitialized", Absent, <<>>))
           ELSE IF r.t = "err" THEN Abort(c("deserialize", Absent, <<>>))
           ELSE IF ~RoleCheck(r, s) THEN Abort(c("401", Absent, <<>>))
           ELSE IF old.t = "err" THEN Abort(c("deserialize", Absent, <<DeleteLog(k)>>))
           ELSE /\ storage' = RecordsRemove(storage, k)
                /\ last' = c("ok", old, <<DeleteLog(k)>>)
                /\ UNCHANGED <<initialized, owner>>

Next ==
    \/ New
    \/ AddRoleSetProduct
    \/ AddRoleDeleteProduct
    \/ SetOwner
    \/ SetProducts
    \/ GetProducts
    \/ DeleteProducts

Spec == Init /\ [][Next]_vars

\* ------------------------------------------------------------------ claims
\* What the role map records, where its entry is readable as a holder set.
RoleEntry(st, role) == st[RawKey(RolesPrefix, role)]
HoldsRole(st, role, a) ==
    RoleEntry(st, role).t = "roles" /\ a \in RoleEntry(st, role).holders
LacksRole(st, role, a) ==
    RoleEntry(st, role).t \in {"none", "roles"} /\ a \notin RoleEntry(st, role).holders
Frame == UNCHANGED <<initialized, storage, owner>>
IsGrant(c) == c.op \in {"add_role_set_product", "add_role_delete_product"}
GrantRole(c) ==
    IF c.op = "add_role_set_product" THEN ROLE_SET_PRODUCT ELSE ROLE_DELETE_PRODUCT

\* C1: in an initialized state a set_products call signed by an account that
\* the role map does not record under ROLE_SET_PRODUCT, and a delete_products
\* call signed by one not recorded under ROLE_DELETE_PRODUCT, ends with "401",
\* and a call that ends with "401" changes neither the storage (items and
\* role sets), the owner nor the initialization flag.
C1_UnauthorizedAborts ==
    [][ /\ (initialized /\ last'.op = "set_products"
              /\ LacksRole(storage, ROLE_SET_PRODUCT, last'.signer))
            => (last'.result = "401" /\ Frame)
        /\ (initialized /\ last'.op = "delete_products"
              /\ LacksRole(storage, ROLE_DELETE_PRODUCT, last'.signer))
            => (last'.result = "401" /\ Frame)
        /\ (last'.op \in {"set_products", "delete_products"} /\ last'.result # "ok")
            => Frame ]_vars

C1_Witness ==
    /\ last.op = "delete_products"
    /\ last.result = "401"
    /\ last.signer # owner
    /\ \E k \in PlainKeys : storage[RawKey(RecordsPrefix, k)].t = "item"

\* C2 (as claimed): a signer recorded as a holder of ROLE_SET_PRODUCT succeeds
\* at set_products, and one recorded under ROLE_DELETE_PRODUCT succeeds at
\* delete_products, whatever the key.
C2_GrantedCallerSucceeds ==
    /\ (last.op = "set_products" /\ HoldsRole(storage, ROLE_SET_PRODUCT, last.signer))
        => last.result = "ok"
    /\ (last.op = "delete_products" /\ HoldsRole(storage, ROLE_DELETE_PRODUCT, last.signer))
        => last.result = "ok"

\* C3: right after a successful new(), has_role answers true for the
\* initializer and both built-in roles, and false for every other account.
C3_OwnerBootstrap ==
    (last.op = "new" /\ last.result = "ok")
        => \A role \in Roles : \A r \in RolesRead(storage, role) : \A a \in Accounts :
             /\ r.t # "err"
             /\ HasRole(r, a) <=> (a = last.signer)

C3_Witness ==
    /\ last.op = "new"
    /\ last.result = "ok"
    /\ HoldsRole(storage, ROLE_SET_PRODUCT, owner)
    /\ HoldsRole(storage, ROLE_DELETE_PRODUCT, owner)

\* C4: new() called when the state exists ends with "already initialized" and
\* leaves the storage, the owner and the flag as they were, for any caller.
C4_SingleInitialization ==
    [][ (initialized /\ last'.op = "new")
            => (last'.result = "already_initialized" /\ Frame) ]_vars

C4_Witness ==
    /\ last.op = "new"
    /\ last.result = "already_initialized"
    /\ last.signer # owner
    /\ \E k \in PlainKeys : storage[RawKey(RecordsPrefix, k)].t = "item"

\* C5 (as claimed): new() called when no state exists succeeds in every call
\* context, makes the signer the owner and records it under both roles.
C5_InitializeAnyCaller ==
    (last.op = "new" /\ last.result # "already_initialized")
        => /\ last.result = "ok"
           /\ owner = last.signer
           /\ HoldsRole(storage, ROLE_SET_PRODUCT, last.signer)
           /\ HoldsRole(storage, ROLE_DELETE_PRODUCT, last.signer)

NoItemStored == \A k \in KeyStrings : storage[RawKey(RecordsPrefix, k)].t # "item"

\* C6 (as claimed): while no Item has been stored, get_products answers
\* absent for every key string, the role names included.
C6_StoreStartsEmpty ==
    (last.op = "get_products" /\ initialized /\ NoItemStored)
        => (last.result = "ok" /\ last.ret = Absent)

C8_DeleteThenGet ==
    (last.op = "delete_products" /\ HoldsRole(storage, ROLE_DELETE_PRODUCT, last.signer))
        => (last.result = "ok" /\ RecordsRead(storage, last.key) = {Absent})

\* C9: a grant that completes records the account under the role; a grant by
\* the owner of a role the account is already recorded under completes and
\* changes nothing; and the same grant made twice in a row completes the
\* second time and leaves the state of the first.
C9_GrantIdempotent ==
    [][ /\ (IsGrant(last') /\ last'.result = "ok")
            => HoldsRole(storage', GrantRole(last'), last'.account)
        /\ (initialized /\ IsGrant(last') /\ last'.pred = owner
              /\ HoldsRole(storage, GrantRole(last'), last'.account))
            => (last'.result = "ok" /\ Frame)
        /\ (IsGrant(last) /\ last.result = "ok" /\ last'.op = last.op
              /\ last'.account = last.account /\ last'.pred = last.pred)
            => (last'.result = "ok" /\ Frame) ]_vars

C9_Witness ==
    /\ IsGrant(last)
    /\ last.result = "ok"
    /\ last.account = owner
    /\ last.old.t = "roles"
    /\ last.account \in last.old.holders
    /\ RoleEntry(storage, GrantRole(last)) = last.old

C11_SingleOwner ==
    [][ /\ initialized' => owner' \in Accounts
        /\ (~initialized /\ initialized') =>
              (last'.op = "new" /\ last'.result = "ok" /\ owner' = last'.signer)
        /\ (initialized /\ owner' # owner) =>
              /\ last'.op = "set_owner"
              /\ last'.result = "ok"
              /\ last'.pred = owner
              /\ owner' = last'.account
        /\ (initialized /\ last'.op = "set_owner" /\ last'.pred # owner) =>
              (last'.result = "not_owner" /\ Frame)
        /\ (initialized /\ last'.op = "set_owner" /\ last'.pred = owner) =>
              (last'.result = "ok" /\ owner' = last'.account) ]_vars

C11_Witness ==
    /\ last.op = "set_owner"
    /\ last.result = "ok"
    /\ last.pred # last.account
    /\ owner = last.account
    /\ HoldsRole(storage, ROLE_SET_PRODUCT, last.pred)

C15_GetIsPureQuery ==
    [][ (initialized /\ last'.op = "get_products")
            => /\ last'.result = "ok"
               /\ Frame
               /\ last'.ret = IF storage[RawKey(RecordsPrefix, last'.key)].t = "item"
                              THEN storage[RawKey(RecordsPrefix, last'.key)]
                              ELSE Absent ]_vars

C17_AuditTrail ==
    /\ (last.op = "set_products" /\ last.result = "ok")
        => last.logs = <<SetLog(last.item)>>
    /\ (last.op = "delete_products" /\ last.result = "ok")
        => last.logs = <<DeleteLog(last.key)>>
    /\ (last.op \in {"set_products", "delete_products"} /\ last.result # "ok")
        => last.logs = <<>>

\* C18: while the state has not been written every call other than new()
\* aborts and leaves it unwritten; the state is written only by a new() that
\* completes; once written it stays written, and no later new() completes.
C18_Lifecycle ==
    [][ /\ (~initialized /\ last'.op # "new")
            => (last'.result = "uninitialized" /\ Frame)
        /\ (~initialized /\ initialized')
            => (last'.op = "new" /\ last'.result = "ok")
        /\ initialized => initialized'
        /\ (initialized /\ last'.op = "new") => last'.result # "ok" ]_vars

C18_Witness ==
    /\ ~initialized
    /\ last.op \in {"set_products", "get_products", "delete_products",
                    "add_role_set_product", "add_role_delete_product", "set_owner"}
    /\ last.result = "uninitialized"
    /\ storage = [rk \in RawKeys |-> Absent]

\* C19 (as claimed): a set_products or delete_products that completes was
\* authorized by its immediate caller: the signer whose role let it through
\* is the predecessor of the call.
C19_OneCallingPrincipal ==
    (last.op \in {"set_products", "delete_products"} /\ last.result = "ok")
        => last.pred = last.signer

====
